---- MODULE Spec2Model ----
(***************************************************************************)
(* Model of the SPDXv3 transfer-unit scripts (src/spdx3.py, src/make-tu.py):*)
(* the identifier codec (expand_iri, compress_iri), the reference walker   *)
(* (compress_ids) and the closure loop and output step of SpdxFile.make.   *)
(*                                                                         *)
(* A Python str is a sequence of one-character strings: "na" is            *)
(* <<"n", "a">>.  A Python list of str is a sequence of such sequences.    *)
(***************************************************************************)
EXTENDS Naturals, Sequences, FiniteSets

VARIABLES
    \* ---- SpdxFile.make -------------------------------------------------
    config,      \* the decoded configuration file (namespace, prefixes, creationInfo, include)
    stored,      \* the elements as decoded from the element files, keyed by id
    ex,          \* make's dict ex = {e['id']: e}; its values are the live element objects
    pc,          \* position in make: "boot", "start", "loop", "walk", "done", "failed"
                 \* ("idle" while the codec is called on its own)
    sfile,       \* make's dict sfile, which is also the context handed to compress_ids
    elist,       \* the worklist of the closure loop
    idx,         \* position of the list comprehension of line 182 inside elist
    elements,    \* make's set `elements`
    walked,      \* history: the keys already fetched from ex and walked in this run
    written,     \* the contents of the output file
    runs,        \* number of runs of make started so far
    prevOutput,  \* what the previous run of make wrote
    err,         \* the exception that ended the run, "" if none
    \* ---- identifier codec, called on its own ---------------------------
    context,     \* the context argument
    iri,         \* the identifier argument
    op,          \* which function was applied: "none", "expand", "compress", "roundtrip"
    out,         \* the returned identifier
    raised       \* the exception the call raised, "" if none

vars == <<config, stored, ex, pc, sfile, elist, idx, elements, walked, written,
          runs, prevOutput, err, context, iri, op, out, raised>>

makeVars == <<config, stored, ex, pc, sfile, elist, idx, elements, walked, written,
              runs, prevOutput, err>>

codecVars == <<context, iri, op, out, raised>>

-----------------------------------------------------------------------------
(* Bounds of the model *)

\* longest identifier handed to the codec on its own
MaxLen == 3
\* longest `to` / container list of a stored element
MaxTo == 1
\* longest include list of a configuration
MaxInclude == 2
\* number of entries sfile['ids'] can hold before the interpreter is out of memory
MaxIds == 8

-----------------------------------------------------------------------------
(* Python str and list operations *)

Range(s) == {s[i] : i \in 1..Len(s)}

Min(S) == CHOOSE x \in S : \A y \in S : x <= y

\* s.startswith(p)
StartsWith(s, p) == Len(p) <= Len(s) /\ SubSeq(s, 1, Len(p)) = p

\* s.replace(old, new): every non-overlapping occurrence, left to right
RECURSIVE Replace(_, _, _)
Replace(s, old, new) ==
    IF old = <<>>
    THEN IF s = <<>> THEN new ELSE new \o <<s[1]>> \o Replace(Tail(s), old, new)
    ELSE IF Len(s) < Len(old) THEN s
    ELSE IF StartsWith(s, old)
         THEN new \o Replace(SubSeq(s, Len(old) + 1, Len(s)), old, new)
         ELSE <<s[1]>> \o Replace(Tail(s), old, new)

\* s.find(c) + 1: position of the first c in s, 0 if there is none
Find(s, c) ==
    LET hits == {i \in 1..Len(s) : s[i] = c}
    IN  IF hits = {} THEN 0 ELSE Min(hits)

\* s.split(c, 1)[0]
CutAt(s, c) == IF Find(s, c) = 0 THEN s ELSE SubSeq(s, 1, Find(s, c) - 1)

\* every sequence over S of length lo..hi
RECURSIVE SeqsOfLen(_, _)
SeqsOfLen(S, n) ==
    IF n = 0 THEN {<<>>}
    ELSE {<<x>> \o t : x \in S, t \in SeqsOfLen(S, n - 1)}

SeqsUpTo(S, lo, hi) == UNION {SeqsOfLen(S, n) : n \in lo..hi}

-----------------------------------------------------------------------------
(* urlparse(element_id), as far as expand_iri reads it: .scheme and .path *)

Letters == {"a", "b", "j", "k", "n"}

\* urllib.parse.scheme_chars, restricted to the characters of the model
SchemeChars == Letters \cup {"+", "-", "."}

\* position of the ':' that ends the scheme, 0 if the url has no scheme
SchemeEnd(url) ==
    LET i == Find(url, ":")
    IN  IF i > 1 /\ url[1] \in Letters /\ \A j \in 1..(i - 1) : url[j] \in SchemeChars
        THEN i ELSE 0

UrlScheme(url) == IF SchemeEnd(url) = 0 THEN <<>> ELSE SubSeq(url, 1, SchemeEnd(url) - 1)

\* the path: what follows the scheme, without '#fragment' and '?query'
UrlPath(url) ==
    CutAt(CutAt(SubSeq(url, SchemeEnd(url) + 1, Len(url)), "#"), "?")

-----------------------------------------------------------------------------
(* The identifier codec *)

\* context['prefixes'].get(scheme, ''): the value of the entry with that key
PrefixGet(prefixes, key) ==
    LET hits == {i \in 1..Len(prefixes) : prefixes[i].k = key}
    IN  IF hits = {} THEN <<>> ELSE prefixes[Min(hits)].v

\* expand_iri raises KeyError: a scheme is present and the context has no 'prefixes'
expand_iri_raises(ctx, element_id) ==
    ~ctx.empty /\ UrlScheme(element_id) # <<>> /\ ~ctx.hasPrefixes

expand_iri(ctx, element_id) ==
    IF ctx.empty THEN element_id
    ELSE IF UrlScheme(element_id) # <<>>
         THEN IF PrefixGet(ctx.prefixes, UrlScheme(element_id)) # <<>>
              THEN PrefixGet(ctx.prefixes, UrlScheme(element_id)) \o UrlPath(element_id)
              ELSE element_id
         ELSE ctx.namespace \o element_id

compress_iri(ctx, id) ==
    IF ctx.empty THEN id
    ELSE IF ctx.namespace # <<>> /\ StartsWith(id, ctx.namespace)
         THEN Replace(id, ctx.namespace, <<>>)
         ELSE LET hits == {i \in 1..Len(ctx.prefixes) : StartsWith(id, ctx.prefixes[i].v)}
              IN  IF hits = {} THEN id
                  ELSE Replace(id, ctx.prefixes[Min(hits)].v,
                               ctx.prefixes[Min(hits)].k \o <<":">>)

-----------------------------------------------------------------------------
(* Elements.  An element is                                                *)
(*   [id, creator, etype, eprops]                                          *)
(* where creator is [present, depth, v]: absent, or the str v (depth 0), or*)
(* v wrapped in `depth` lists; etype is the single key of element['type']  *)
(* and eprops its property bag, a sequence of [p, v] in dict order, v the  *)
(* list of identifiers of the property (a scalar property holds one).      *)

NoCreator == [present |-> FALSE, depth |-> 0, v |-> <<>>]

Creator(c) == [present |-> TRUE, depth |-> 0, v |-> c]

ListProps == {"element", "rootElement", "originator", "members"}

HasProp(eprops, name) == \E i \in 1..Len(eprops) : eprops[i].p = name

Prop(eprops, name) == eprops[CHOOSE i \in 1..Len(eprops) : eprops[i].p = name].v

\* [compress_iri(context, k) for k in l]
CompressAll(ctx, l) == [i \in 1..Len(l) |-> compress_iri(ctx, l[i])]

\* list(s): the characters of a str, each a str of its own
Chars(s) == [i \in 1..Len(s) |-> <<s[i]>>]

\* what `ids += eprops[p]` adds over the loop `for p in eprops`
RECURSIVE ListPropIds(_)
ListPropIds(eprops) ==
    IF eprops = <<>> THEN <<>>
    ELSE (IF Head(eprops).p \in ListProps THEN Head(eprops).v ELSE <<>>)
         \o ListPropIds(Tail(eprops))

\* eprops after the loop `for p in eprops` (lines 88-91)
CompressListProps(ctx, eprops) ==
    [i \in 1..Len(eprops) |->
        IF eprops[i].p \in ListProps
        THEN [eprops[i] EXCEPT !.v = CompressAll(ctx, eprops[i].v)]
        ELSE eprops[i]]

\* eprops with the properties named in `names` compressed (lines 94, 97-98)
CompressNamed(ctx, eprops, names) ==
    [i \in 1..Len(eprops) |->
        IF eprops[i].p \in names
        THEN [eprops[i] EXCEPT !.v = CompressAll(ctx, eprops[i].v)]
        ELSE eprops[i]]

\* the properties lines 92-98 read for this kind; a missing one is a KeyError
KindProps(etype) ==
    IF etype = "annotation" THEN {"subject"}
    ELSE IF etype = "relationship" THEN {"from", "to"}
    ELSE {}

\* what lines 93 and 96 add to ids
KindIds(etype, eprops) ==
    IF etype = "annotation" THEN Chars(Prop(eprops, "subject")[1])
    ELSE IF etype = "relationship" THEN Prop(eprops, "from") \o Prop(eprops, "to")
    ELSE <<>>

\* compress_ids(context, element): the element object after the call, the local
\* list ids, whether ids holds a list object, and the exception raised ("" if none;
\* when one is raised context['ids'] is not extended)
compress_ids(ctx, element) ==
    LET cr == element.creator
        e1 == [element EXCEPT !.id = compress_iri(ctx, element.id)]
        \* line 86 on a creator that is already a list: list has no startswith
        crRaises == cr.present /\ cr.depth > 0
                    /\ ~ctx.empty /\ (ctx.namespace # <<>> \/ ctx.prefixes # <<>>)
        e2 == IF ~cr.present THEN e1
              ELSE IF cr.depth = 0
                   THEN [e1 EXCEPT !.creator = [present |-> TRUE, depth |-> 1,
                                                v |-> compress_iri(ctx, cr.v)]]
                   ELSE [e1 EXCEPT !.creator.depth = cr.depth + 1]
        ids2 == <<element.id>> \o (IF cr.present /\ cr.depth = 0 THEN <<cr.v>> ELSE <<>>)
        e3 == [e2 EXCEPT !.eprops = CompressListProps(ctx, element.eprops)]
        ids3 == ids2 \o ListPropIds(element.eprops)
        kindRaises == \E n \in KindProps(element.etype) : ~HasProp(element.eprops, n)
        e4 == [e3 EXCEPT !.eprops = CompressNamed(ctx, e3.eprops, KindProps(element.etype))]
    IN  IF crRaises
        THEN [element |-> e1, ids |-> <<>>, nested |-> FALSE, raised |-> "AttributeError"]
        ELSE IF kindRaises
        THEN [element |-> e3, ids |-> <<>>, nested |-> FALSE, raised |-> "KeyError"]
        ELSE [element |-> e4,
              ids |-> ids3 \o KindIds(element.etype, element.eprops),
              nested |-> cr.present /\ cr.depth > 0,
              raised |-> ""]

-----------------------------------------------------------------------------
(* The inputs of make: the element files and the configuration file *)

NA == <<"n", "a">>
NB == <<"n", "b">>
B == <<"b">>

\* the identifiers the include list and the references of the elements use
Pool == {NB, B}

\* the lists of identifiers a `to` or container property holds
RefLists == SeqsUpTo(Pool, 1, MaxTo)

\* element['type'] of a decoded element: one kind and its property bag
TypeBags ==
    {[etype |-> "package", eprops |-> <<>>]}
    \cup {[etype |-> "bundle", eprops |-> <<[p |-> "element", v |-> l]>>] : l \in RefLists}
    \cup {[etype |-> "annotation", eprops |-> <<[p |-> "subject", v |-> <<x>>]>>] : x \in Pool}
    \cup {[etype |-> "relationship",
           eprops |-> <<[p |-> "from", v |-> <<x>>], [p |-> "to", v |-> l]>>] :
              x \in Pool, l \in RefLists}

\* the creator of a decoded element: absent, or the identifier of the creator element
Creators == {NoCreator, Creator(NA)}

Shapes == {[creator |-> c, type |-> t] : c \in Creators, t \in TypeBags}

Element(k, shape) ==
    [id |-> k, creator |-> shape.creator,
     etype |-> shape.type.etype, eprops |-> shape.type.eprops]

\* the creator element, which names itself as its creator
CreatorElement == Element(NA, [creator |-> Creator(NA), type |-> [etype |-> "person", eprops |-> <<>>]])

\* ex = {e['id']: e for e in elements} (line 168) over every choice of element files
Stores ==
    UNION {{[k \in K \cup A |-> IF k = NA THEN CreatorElement ELSE Element(k, c[k])] :
               c \in [K -> Shapes]} : K \in SUBSET Pool, A \in {{}, {NA}}}

NoPrefixes == <<>>

\* the contexts a configuration declares: a namespace the identifiers start with,
\* a prefix they start with, or neither
ConfigContexts ==
    {[namespace |-> <<"n">>, prefixes |-> NoPrefixes],
     [namespace |-> <<>>, prefixes |-> <<[k |-> <<"k">>, v |-> <<"n">>]>>],
     [namespace |-> <<>>, prefixes |-> NoPrefixes]}

Configs ==
    {[namespace |-> c.namespace, prefixes |-> c.prefixes,
      creationInfo |-> ci, include |-> inc] :
        c \in ConfigContexts, ci \in {NA, B}, inc \in SeqsUpTo(Pool, 0, MaxInclude)}

\* sfile before line 173
NoSfile ==
    [empty |-> TRUE, namespace |-> <<>>, prefixes |-> NoPrefixes, hasPrefixes |-> FALSE,
     creator |-> <<>>, hasIds |-> FALSE, ids |-> <<>>, nested |-> FALSE]

\* no output file
NoFile ==
    [exists |-> FALSE, namespace |-> <<>>, prefixes |-> NoPrefixes,
     creator |-> <<>>, element |-> <<>>]

\* the codec variables while make runs
CodecIdle ==
    /\ context = [empty |-> TRUE, namespace |-> <<>>, prefixes |-> NoPrefixes,
                  hasPrefixes |-> FALSE]
    /\ iri = <<>>
    /\ op = "none"
    /\ out = <<>>
    /\ raised = ""

\* before make has read its files
NoConfig ==
    [namespace |-> <<>>, prefixes |-> NoPrefixes, creationInfo |-> <<>>, include |-> <<>>]

NoStore == <<>>

Init ==
    /\ stored = NoStore
    /\ config = NoConfig
    /\ ex = NoStore
    /\ pc = "boot"
    /\ sfile = NoSfile
    /\ elist = <<>>
    /\ idx = 0
    /\ elements = {}
    /\ walked = {}
    /\ written = NoFile
    /\ runs = 0
    /\ prevOutput = NoFile
    /\ err = ""
    /\ CodecIdle

-----------------------------------------------------------------------------
(* SpdxFile.make *)

\* what Lookup gives where ex[k] raises KeyError
Missing == [id |-> <<>>, creator |-> NoCreator, etype |-> "missing", eprops |-> <<>>]

\* ex[k]
Lookup(store, k) == IF k \in DOMAIN store THEN store[k] ELSE Missing

\* the run ends with an exception
Fail(e) ==
    /\ pc' = "failed"
    /\ err' = e

\* the inputs whose references all resolve: the creationInfo element is stored with
\* its creator, and every seed and every reference of an element is a key of the store
Resolved(store, cfg) ==
    /\ cfg.creationInfo \in DOMAIN store
    /\ store[cfg.creationInfo].creator.present
    /\ \A i \in 1..Len(cfg.include) : cfg.include[i] \in DOMAIN store
    /\ \A k \in DOMAIN store :
          /\ store[k].creator.present => store[k].creator.v \in DOMAIN store
          /\ \A i \in 1..Len(store[k].eprops) :
                \A j \in 1..Len(store[k].eprops[i].v) :
                    store[k].eprops[i].v[j] \in DOMAIN store

\* lines 164-169: the configuration and the element files are read
Read(store, cfg) ==
    /\ pc = "boot"
    /\ stored' = store
    /\ config' = cfg
    /\ ex' = store
    /\ runs' = 1
    /\ pc' = "start"
    /\ UNCHANGED <<sfile, elist, idx, elements, walked, written, prevOutput, err>>
    /\ UNCHANGED codecVars

ReadInputs ==
    /\ pc = "boot"
    /\ \E store \in Stores, cfg \in Configs : Read(store, cfg)

ReadResolvedInputs ==
    /\ pc = "boot"
    /\ \E store \in Stores, cfg \in Configs : Resolved(store, cfg) /\ Read(store, cfg)

\* make with the lookup of line 170 left out: the run goes on to the loop without
\* the creationInfo element
CreationInfoSkipped ==
    /\ pc = "start"
    /\ Lookup(ex, config.creationInfo) = Missing
    /\ sfile' = [empty |-> FALSE,
                 namespace |-> config.namespace,
                 prefixes |-> config.prefixes,
                 hasPrefixes |-> config.prefixes # NoPrefixes,
                 creator |-> <<>>,
                 hasIds |-> FALSE, ids |-> <<>>, nested |-> FALSE]
    /\ elist' = config.include
    /\ elements' = {}
    /\ pc' = "loop"
    /\ UNCHANGED <<config, stored, ex, idx, walked, written, runs, prevOutput, err>>
    /\ UNCHANGED codecVars

\* lines 170-171: ex[config['creationInfo']] raises KeyError
CreationInfoUnknown ==
    /\ pc = "start"
    /\ Lookup(ex, config.creationInfo) = Missing
    /\ Fail("KeyError")
    /\ UNCHANGED <<config, stored, ex, sfile, elist, idx, elements, walked, written,
                   runs, prevOutput>>
    /\ UNCHANGED codecVars

\* line 171: ed["creator"] raises KeyError on an element without creator
CreationInfoNoCreator ==
    /\ pc = "start"
    /\ Lookup(ex, config.creationInfo) # Missing
    /\ ~Lookup(ex, config.creationInfo).creator.present
    /\ Fail("KeyError")
    /\ UNCHANGED <<config, stored, ex, sfile, elist, idx, elements, walked, written,
                   runs, prevOutput>>
    /\ UNCHANGED codecVars

\* lines 170-179: sfile is set up from the configuration and the creationInfo element
Setup ==
    /\ pc = "start"
    /\ Lookup(ex, config.creationInfo) # Missing
    /\ Lookup(ex, config.creationInfo).creator.present
    /\ sfile' = [empty |-> FALSE,
                 namespace |-> config.namespace,
                 prefixes |-> config.prefixes,
                 hasPrefixes |-> config.prefixes # NoPrefixes,
                 creator |-> Lookup(ex, config.creationInfo).creator.v,
                 hasIds |-> FALSE, ids |-> <<>>, nested |-> FALSE]
    /\ elist' = config.include
    /\ elements' = {}
    /\ pc' = "loop"
    /\ UNCHANGED <<config, stored, ex, idx, walked, written, runs, prevOutput, err>>
    /\ UNCHANGED codecVars

\* lines 180-181: the loop test succeeds and sfile['ids'] is reset
BeginGeneration ==
    /\ pc = "loop"
    /\ elist # <<>>
    /\ sfile' = [sfile EXCEPT !.hasIds = TRUE, !.ids = <<>>, !.nested = FALSE]
    /\ idx' = 1
    /\ pc' = "walk"
    /\ UNCHANGED <<config, stored, ex, elist, elements, walked, written, runs,
                   prevOutput, err>>
    /\ UNCHANGED codecVars

\* line 182, one element of the comprehension: ex[k] raises KeyError
WalkUnknown ==
    /\ pc = "walk"
    /\ idx <= Len(elist)
    /\ Lookup(ex, elist[idx]) = Missing
    /\ walked' = walked \cup {elist[idx]}
    /\ Fail("KeyError")
    /\ UNCHANGED <<config, stored, ex, sfile, elist, idx, elements, written, runs,
                   prevOutput>>
    /\ UNCHANGED codecVars

\* line 182, one element of the comprehension: compress_ids raises
WalkRaises ==
    /\ pc = "walk"
    /\ idx <= Len(elist)
    /\ Lookup(ex, elist[idx]) # Missing
    /\ \E r \in {compress_ids(sfile, Lookup(ex, elist[idx]))} :
           /\ r.raised # ""
           /\ ex' = [ex EXCEPT ![elist[idx]] = r.element]
           /\ Fail(r.raised)
    /\ walked' = walked \cup {elist[idx]}
    /\ UNCHANGED <<config, stored, sfile, elist, idx, elements, written, runs, prevOutput>>
    /\ UNCHANGED codecVars

\* line 182, one element of the comprehension: context['ids'] cannot grow any more
WalkMemoryError ==
    /\ pc = "walk"
    /\ idx <= Len(elist)
    /\ Lookup(ex, elist[idx]) # Missing
    /\ \E r \in {compress_ids(sfile, Lookup(ex, elist[idx]))} :
           /\ r.raised = ""
           /\ Len(sfile.ids) + Len(r.ids) > MaxIds
           /\ ex' = [ex EXCEPT ![elist[idx]] = r.element]
    /\ walked' = walked \cup {elist[idx]}
    /\ Fail("MemoryError")
    /\ UNCHANGED <<config, stored, sfile, elist, idx, elements, written, runs, prevOutput>>
    /\ UNCHANGED codecVars

\* line 182, one element of the comprehension: compress_ids(sfile, ex[k])
Walk ==
    /\ pc = "walk"
    /\ idx <= Len(elist)
    /\ Lookup(ex, elist[idx]) # Missing
    /\ \E r \in {compress_ids(sfile, Lookup(ex, elist[idx]))} :
           /\ r.raised = ""
           /\ Len(sfile.ids) + Len(r.ids) <= MaxIds
           /\ ex' = [ex EXCEPT ![elist[idx]] = r.element]
           /\ sfile' = [sfile EXCEPT !.ids = sfile.ids \o r.ids,
                                     !.nested = sfile.nested \/ r.nested]
    /\ walked' = walked \cup {elist[idx]}
    /\ idx' = idx + 1
    /\ UNCHANGED <<config, stored, pc, elist, elements, written, runs, prevOutput, err>>
    /\ UNCHANGED codecVars

\* [k for k in sfile['ids'] if k not in elist]
RECURSIVE NotIn(_, _)
NotIn(ids, l) ==
    IF ids = <<>> THEN <<>>
    ELSE (IF Head(ids) \in Range(l) THEN <<>> ELSE <<Head(ids)>>) \o NotIn(Tail(ids), l)

\* line 183: set(sfile['ids']) raises TypeError when ids holds a list
EndGenerationUnhashable ==
    /\ pc = "walk"
    /\ idx > Len(elist)
    /\ sfile.nested
    /\ Fail("TypeError")
    /\ UNCHANGED <<config, stored, ex, sfile, elist, idx, elements, walked, written,
                   runs, prevOutput>>
    /\ UNCHANGED codecVars

\* lines 183-184: the generation's ids join `elements` and the next worklist is built
EndGeneration ==
    /\ pc = "walk"
    /\ idx > Len(elist)
    /\ ~sfile.nested
    /\ elements' = elements \cup Range(sfile.ids)
    /\ elist' = NotIn(sfile.ids, elist)
    /\ pc' = "loop"
    /\ UNCHANGED <<config, stored, ex, sfile, idx, walked, written, runs, prevOutput, err>>
    /\ UNCHANGED codecVars

\* line 187: del sfile['ids'] raises KeyError when the loop body never ran
DelIdsFails ==
    /\ pc = "loop"
    /\ elist = <<>>
    /\ ~sfile.hasIds
    /\ Fail("KeyError")
    /\ UNCHANGED <<config, stored, ex, sfile, elist, idx, elements, walked, written,
                   runs, prevOutput>>
    /\ UNCHANGED codecVars

\* list(S): the members of a set of str in the iteration order of the set, which
\* follows the per-process str hashes: any order
RECURSIVE Orders(_)
Orders(S) ==
    IF S = {} THEN {<<>>}
    ELSE UNION {{<<x>> \o t : t \in Orders(S \ {x})} : x \in S}

\* lines 187-192: the loop has ended; the document is built and written
WriteOutput ==
    /\ pc = "loop"
    /\ elist = <<>>
    /\ sfile.hasIds
    /\ \E order \in Orders(elements) :
          written' = [exists |-> TRUE, namespace |-> sfile.namespace,
                      prefixes |-> sfile.prefixes, creator |-> sfile.creator,
                      element |-> order]
    /\ sfile' = [sfile EXCEPT !.hasIds = FALSE, !.ids = <<>>]
    /\ pc' = "done"
    /\ UNCHANGED <<config, stored, ex, elist, idx, elements, walked, runs, prevOutput, err>>
    /\ UNCHANGED codecVars

\* make is run a second time on the same configuration and element files, after
\* a first run that wrote its document
Rerun ==
    /\ pc = "done"
    /\ ~prevOutput.exists
    /\ runs' = runs + 1
    /\ prevOutput' = written
    /\ ex' = stored
    /\ pc' = "start"
    /\ sfile' = NoSfile
    /\ elist' = <<>>
    /\ idx' = 0
    /\ elements' = {}
    /\ walked' = {}
    /\ err' = ""
    /\ UNCHANGED <<config, stored, written>>
    /\ UNCHANGED codecVars

MakeStep ==
    \/ CreationInfoUnknown
    \/ CreationInfoNoCreator
    \/ Setup
    \/ BeginGeneration
    \/ WalkUnknown
    \/ WalkRaises
    \/ WalkMemoryError
    \/ Walk
    \/ EndGenerationUnhashable
    \/ EndGeneration
    \/ DelIdsFails
    \/ WriteOutput

Next == ReadInputs \/ MakeStep \/ Rerun

Spec == Init /\ [][Next]_vars

\* the steps of the closure loop and of the output
ClosureStep ==
    \/ BeginGeneration
    \/ Walk
    \/ WalkUnknown
    \/ WalkRaises
    \/ WalkMemoryError
    \/ EndGenerationUnhashable
    \/ EndGeneration
    \/ DelIdsFails
    \/ WriteOutput

\* one run of make on inputs whose references all resolve
LoopStep == ReadResolvedInputs \/ Setup \/ ClosureStep

\* the interpreter keeps executing the loop until the script ends
FairSpec == Init /\ [][LoopStep]_vars /\ WF_vars(ClosureStep)

-----------------------------------------------------------------------------
(* The identifier codec called on its own: one call per behaviour *)

CodecChars == {"n", "a", ":", "#"}

Namespaces == SeqsUpTo({"n", "a"}, 0, 2) \cup {<<"n", ":">>, <<"n", "#">>}

\* prefix tables in dict order; the keys of a dict are distinct
PrefixTables ==
    {<<[k |-> <<"a">>, v |-> <<"n">>]>>,
     <<[k |-> <<"a">>, v |-> <<"n">>], [k |-> <<"k">>, v |-> <<"n", "a">>]>>,
     <<[k |-> <<"k">>, v |-> <<"n", "a">>], [k |-> <<"a">>, v |-> <<"n">>]>>}

\* {} ; a context with a 'prefixes' entry (possibly {}); a context without one
CodecContexts ==
    {[empty |-> TRUE, namespace |-> <<>>, prefixes |-> NoPrefixes, hasPrefixes |-> FALSE]}
    \cup {[empty |-> FALSE, namespace |-> ns, prefixes |-> t, hasPrefixes |-> TRUE] :
            ns \in Namespaces, t \in PrefixTables \cup {NoPrefixes}}
    \cup {[empty |-> FALSE, namespace |-> ns, prefixes |-> NoPrefixes,
           hasPrefixes |-> FALSE] : ns \in Namespaces}

\* the variables of make while the codec is called on its own
MakeIdle ==
    /\ config = NoConfig
    /\ stored = NoStore
    /\ ex = NoStore
    /\ pc = "idle"
    /\ sfile = NoSfile
    /\ elist = <<>>
    /\ idx = 0
    /\ elements = {}
    /\ walked = {}
    /\ written = NoFile
    /\ runs = 0
    /\ prevOutput = NoFile
    /\ err = ""

InitCodec ==
    /\ context \in CodecContexts
    /\ iri \in SeqsUpTo(CodecChars, 0, MaxLen)
    /\ op = "none"
    /\ out = <<>>
    /\ raised = ""
    /\ MakeIdle

\* expand_iri(context, iri) returns
Expand ==
    /\ op = "none"
    /\ ~expand_iri_raises(context, iri)
    /\ op' = "expand"
    /\ out' = expand_iri(context, iri)
    /\ UNCHANGED <<context, iri, raised>>
    /\ UNCHANGED makeVars

\* expand_iri(context, iri) raises KeyError at context['prefixes']
ExpandRaises ==
    /\ op = "none"
    /\ expand_iri_raises(context, iri)
    /\ op' = "expand"
    /\ raised' = "KeyError"
    /\ UNCHANGED <<context, iri, out>>
    /\ UNCHANGED makeVars

\* compress_iri(context, iri)
Compress ==
    /\ op = "none"
    /\ op' = "compress"
    /\ out' = compress_iri(context, iri)
    /\ UNCHANGED <<context, iri, raised>>
    /\ UNCHANGED makeVars

\* compress_iri(context, expand_iri(context, iri))
RoundTrip ==
    /\ op = "none"
    /\ ~expand_iri_raises(context, iri)
    /\ op' = "roundtrip"
    /\ out' = compress_iri(context, expand_iri(context, iri))
    /\ UNCHANGED <<context, iri, raised>>
    /\ UNCHANGED makeVars

NextCodec == Expand \/ ExpandRaises \/ Compress \/ RoundTrip

SpecCodec == InitCodec /\ [][NextCodec]_vars

-----------------------------------------------------------------------------
(* Properties *)

\* the identifier fields of an element, by kind
IdProps(etype) == ListProps \cup KindProps(etype)

\* the identifiers an element holds in its identifier fields: its id, its creator,
\* the entries of its container and originator lists, an annotation's subject,
\* a relationship's from and to
FieldIds(e) ==
    {e.id}
    \cup (IF e.creator.present THEN {e.creator.v} ELSE {})
    \cup UNION {Range(e.eprops[i].v) :
                  i \in {j \in 1..Len(e.eprops) : e.eprops[j].p \in IdProps(e.etype)}}

\* the identifiers reachable from S through the identifier fields of the stored elements
RECURSIVE Reachable(_)
Reachable(S) ==
    LET N == S \cup UNION {FieldIds(stored[k]) : k \in S \cap DOMAIN stored}
    IN  IF N = S THEN S ELSE Reachable(N)

\* C1: when every reference resolves in the store, the closure loop of make
\* terminates: once entered, make eventually leaves it
ClosureTerminates ==
    (pc = "loop") ~> (pc \in {"done", "failed"})

\* C2: the element list make emits is exactly the set of identifiers reachable
\* from the include list through the identifier fields
EmitsReachable ==
    pc = "done" => Range(written.element) = Reachable(Range(config.include))

\* C3: when the creationInfo identifier is not a key of the store, make fails with
\* the unknown-key error and never gets as far as the output file
UnknownCreationInfoFailsFirst ==
    config.creationInfo \notin DOMAIN stored =>
        /\ pc \in {"boot", "idle", "start", "failed"}
        /\ ~written.exists
        /\ pc = "failed" => err = "KeyError"

\* a run stopped on a creationInfo identifier the store does not hold
UnknownCreationInfoSeen ==
    /\ config.creationInfo \notin DOMAIN stored
    /\ pc = "failed"
    /\ err = "KeyError"
    /\ stored # NoStore
    /\ config.include # <<>>

\* an identifier is compressed relative to a context: it starts neither with the
\* namespace nor with a prefix value
InCompressedForm(ctx, id) ==
    /\ ~(ctx.namespace # <<>> /\ StartsWith(id, ctx.namespace))
    /\ \A i \in 1..Len(ctx.prefixes) : ~StartsWith(id, ctx.prefixes[i].v)

\* C4: every identifier of the emitted element list is in compressed form
\* relative to the document's namespace and prefixes
EmitsCompressed ==
    pc = "done" =>
        \A i \in 1..Len(written.element) : InCompressedForm(written, written.element[i])

\* C5: the elements held by the store are never changed by the closure loop
StoreUnchanged ==
    \A k \in DOMAIN ex : ex[k] = stored[k]

\* C6: a second run of make on the same files writes the same document as the
\* first, element order included
SameOutputTwice ==
    (pc = "done" /\ prevOutput.exists) => written = prevOutput

\* the identifiers Walk appended to sfile['ids'] in this step
Reported == SubSeq(sfile'.ids, Len(sfile.ids) + 1, Len(sfile'.ids))

\* C9: walking a decoded element reports exactly the values of its identifier
\* fields, each as one whole identifier
WalkerReportsFields ==
    [][(pc = "walk" /\ pc' = "walk" /\ idx' = idx + 1 /\ ex[elist[idx]] = stored[elist[idx]])
          => Range(Reported) = FieldIds(ex[elist[idx]])]_vars

\* C10: no identifier is fetched and walked twice in a run, and no worklist
\* holds an identifier twice
WalkedAtMostOnce ==
    /\ (pc = "walk" /\ idx <= Len(elist)) => elist[idx] \notin walked
    /\ Cardinality(Range(elist)) = Len(elist)

-----------------------------------------------------------------------------
(* Properties of the codec *)

\* C7: with a non-empty namespace, an identifier without scheme survives
\* expand_iri followed by compress_iri
RoundTripIdentity ==
    (op = "roundtrip" /\ ~context.empty /\ context.namespace # <<>> /\ UrlScheme(iri) = <<>>)
        => out = iri

\* s without its first n characters
Drop(s, n) == SubSeq(s, n + 1, Len(s))

\* the compressed form as specified: only the leading namespace, or the leading
\* value of the first matching prefix entry, is replaced
LeadingCompressed(ctx, id) ==
    IF ctx.empty THEN id
    ELSE IF ctx.namespace # <<>> /\ StartsWith(id, ctx.namespace)
         THEN Drop(id, Len(ctx.namespace))
         ELSE LET hits == {i \in 1..Len(ctx.prefixes) : StartsWith(id, ctx.prefixes[i].v)}
              IN  IF hits = {} THEN id
                  ELSE ctx.prefixes[Min(hits)].k \o <<":">>
                       \o Drop(id, Len(ctx.prefixes[Min(hits)].v))

\* C8: compress_iri removes only the leading namespace, else replaces only the
\* leading value of the first matching prefix entry, else returns the iri
CompressStripsLeading ==
    op = "compress" => out = LeadingCompressed(context, iri)

====
